---- MODULE Spec2Model ----
(***************************************************************************)
(* A model of safe/gui/tools/minimum_needs/needs_profile.py: the           *)
(* NeedsProfile class (load, load_profile, save_profile, save,             *)
(* get_profiles with its nested sort_by_locale, get_needs_parameters,      *)
(* format_sentence, remove_profile) over a settings store, a user          *)
(* directory of profile files and a registry of plugins.                   *)
(*                                                                         *)
(* Python strings that the code takes apart (file names, templates,        *)
(* locales) are sequences of one-character strings; strings that are only  *)
(* copied or compared are TLA+ strings.  A Python dict is a function from  *)
(* its keys to its values.                                                 *)
(***************************************************************************)
EXTENDS Integers, Sequences, FiniteSets, TLC

VARIABLES
    settings,       \* the value stored under 'MinimumNeeds' in QSettings
    locale,         \* self.locale, read once from 'locale/userLocale'
    minimum_needs,  \* self.minimum_needs
    dir_exists,     \* whether <root>/minimum_needs exists
    files,          \* <root>/minimum_needs: file name -> parsed content
    plugins,        \* get_plugins(): plugin name -> plugin object
    copies,         \* history: whether each bundled file was copied in
                    \* "never", "once" or "again"
    op,             \* the operation that ran last
    arg,            \* its argument
    listed,         \* the list get_profiles returned in it, None if not run
    exc,            \* the exception it raised, "None" if it returned
    s_names,        \* sort_by_locale: unsorted_profiles
    s_locale,       \* sort_by_locale: locale
    s_out,          \* sort_by_locale: the list returned
    f_sentence,     \* format_sentence: sentence
    f_resource,     \* format_sentence: resource
    f_out           \* format_sentence: its outcome

vars == <<settings, locale, minimum_needs, dir_exists, files, plugins, copies,
          op, arg, listed, exc, s_names, s_locale, s_out,
          f_sentence, f_resource, f_out>>

profile_vars == <<settings, locale, minimum_needs, dir_exists, files, plugins,
                  copies, op, arg, listed, exc>>

sort_vars == <<s_names, s_locale, s_out>>

format_vars == <<f_sentence, f_resource, f_out>>

-----------------------------------------------------------------------------
(* Bounds of the model.                                                    *)

\* the longest list of names handed to sort_by_locale
MaxNames == 3

\* the longest template handed to format_sentence
MaxSentence == 6

-----------------------------------------------------------------------------
(* Python values.                                                          *)

PyNone == [t |-> "NoneType"]

PyDict(d) == [t |-> "dict", v |-> d]

PyUnicode(s) == [t |-> "unicode", v |-> s]

PyList(l) == [t |-> "list", v |-> l]

\* bool(x) is False
Falsy(x) ==
    CASE x.t = "NoneType" -> TRUE
      [] x.t = "dict" -> DOMAIN x.v = {}
      [] x.t = "unicode" -> x.v = <<>>
      [] x.t = "list" -> x.v = <<>>

Returned(x) == [exc |-> "None", v |-> x]

Raised(e) == [exc |-> e]

-----------------------------------------------------------------------------
(* Python string methods, on sequences of characters.                      *)

Min(a, b) == IF a < b THEN a ELSE b

\* s[:n]
Prefix(s, n) == SubSeq(s, 1, Min(n, Len(s)))

\* s[-n:]
Suffix(s, n) == SubSeq(s, Len(s) - Min(n, Len(s)) + 1, Len(s))

\* s[:-n]
DropSuffix(s, n) == SubSeq(s, 1, Len(s) - Min(n, Len(s)))

\* s.find(sub) + 1: the first place sub starts in s, 0 when there is none
Find(s, sub) ==
    LET at == {i \in 1..(Len(s) - Len(sub) + 1) :
                  SubSeq(s, i, i + Len(sub) - 1) = sub}
    IN  IF at = {} THEN 0 ELSE CHOOSE i \in at : \A j \in at : i <= j

\* sub in s
Contains(s, sub) == Find(s, sub) # 0

RECURSIVE Split(_, _)
\* s.split(sep)
Split(s, sep) ==
    LET i == Find(s, sep)
    IN  IF i = 0
        THEN <<s>>
        ELSE <<SubSeq(s, 1, i - 1)>>
                 \o Split(SubSeq(s, i + Len(sep), Len(s)), sep)

RECURSIVE Replace(_, _, _)
\* s.replace(old, new)
Replace(s, old, new) ==
    LET i == Find(s, old)
    IN  IF i = 0
        THEN s
        ELSE SubSeq(s, 1, i - 1) \o new
                 \o Replace(SubSeq(s, i + Len(old), Len(s)), old, new)

IsSpace(c) == c \in {" ", "\t", "\n"}

RECURSIVE RStrip(_)
\* s.rstrip()
RStrip(s) ==
    IF s # <<>> /\ IsSpace(s[Len(s)])
    THEN RStrip(SubSeq(s, 1, Len(s) - 1))
    ELSE s

RECURSIVE LStrip(_)
LStrip(s) == IF s # <<>> /\ IsSpace(s[1]) THEN LStrip(Tail(s)) ELSE s

\* s.strip()
Strip(s) == LStrip(RStrip(s))

RECURSIVE Text(_)
\* the characters of s as one string
Text(s) == IF s = <<>> THEN "" ELSE s[1] \o Text(Tail(s))

DotJson == <<".", "j", "s", "o", "n">>

-----------------------------------------------------------------------------
(* get_profiles.sort_by_locale                                             *)

RECURSIVE SortLoop(_, _, _, _)
\* the for loop: the names left, the tag, and the two lists built so far
SortLoop(names, tag, profiles_our_locale, profiles_remaining) ==
    IF names = <<>>
    THEN profiles_our_locale \o profiles_remaining
    ELSE IF Contains(Head(names), tag)
         THEN SortLoop(Tail(names), tag,
                       Append(profiles_our_locale, Head(names)),
                       profiles_remaining)
         ELSE SortLoop(Tail(names), tag, profiles_our_locale,
                       Append(profiles_remaining, Head(names)))

\* a tag without the underscore
sort_by_locale_bare_tag(unsorted_profiles, loc) ==
    SortLoop(unsorted_profiles, Prefix(loc, 2), <<>>, <<>>)

sort_by_locale(unsorted_profiles, loc) ==
    SortLoop(unsorted_profiles, <<"_">> \o Prefix(loc, 2), <<>>, <<>>)

-----------------------------------------------------------------------------
(* format_sentence                                                         *)

RECURSIVE FormatLoopSplitOnce(_, _, _)
\* a loop that splits each part at its first '}}' only
FormatLoopSplitOnce(parts, resource, updated_sentence) ==
    IF parts = <<>>
    THEN Returned(updated_sentence)
    ELSE LET at == Find(Head(parts), <<"}", "}">>)
         IN  IF at = 0
             THEN Raised("ValueError")
             ELSE LET replace == Text(Strip(SubSeq(Head(parts), 1, at - 1)))
                      keep == SubSeq(Head(parts), at + 2, Len(Head(parts)))
                  IN  IF replace \notin DOMAIN resource
                      THEN Raised("KeyError")
                      ELSE FormatLoopSplitOnce(Tail(parts), resource,
                               updated_sentence \o " " \o resource[replace]
                                   \o Text(keep))

RECURSIVE FormatLoop(_, _, _)
\* the for loop over sentence[1:]: the parts left, the resource and the
\* sentence built so far
FormatLoop(parts, resource, updated_sentence) ==
    IF parts = <<>>
    THEN Returned(updated_sentence)
    ELSE LET pieces == Split(Head(parts), <<"}", "}">>)
         IN  IF Len(pieces) # 2
             THEN Raised("ValueError")      \* replace, keep = ...
             ELSE LET replace == Text(Strip(pieces[1]))
                      keep == pieces[2]
                  IN  IF replace \notin DOMAIN resource
                      THEN Raised("KeyError")
                      ELSE FormatLoop(Tail(parts), resource,
                               updated_sentence \o " " \o resource[replace]
                                   \o Text(keep))

format_sentence(sentence, resource) ==
    LET parts == Split(sentence, <<"{", "{">>)
    IN  FormatLoop(Tail(parts), resource, Text(RStrip(parts[1])))

-----------------------------------------------------------------------------
(* The data of the model: resources, profiles, files, plugins.             *)

\* float(s), for the numerals the profiles of the model use
Numerals == ("0" :> 0 @@ "5" :> 5 @@ "10" :> 10)

Resource(name, sentence, default) ==
    ("Resource name" :> name @@ "Resource description" :> "basic need"
     @@ "Frequency" :> "weekly" @@ "Readable sentence" :> sentence
     @@ "Minimum allowed" :> "0" @@ "Maximum allowed" :> "10"
     @@ "Unit" :> "kilogram" @@ "Units" :> "kilograms"
     @@ "Unit abbreviation" :> "kg" @@ "Default" :> default)

\* "{{ Default }} kg"
GoodSentence ==
    <<"{", "{", " ", "D", "e", "f", "a", "u", "l", "t", " ", "}", "}",
      " ", "k", "g">>

\* "{{x}}": a placeholder that is no field of the resource
BadSentence == <<"{", "{", "x", "}", "}">>

Rice == Resource("Rice", GoodSentence, "5")

Water == Resource("Water", GoodSentence, "10")

Broken == Resource("Rice", BadSentence, "5")

Profile(provenance, resources) ==
    ("provenance" :> provenance @@ "resources" :> resources)

\* the content of the bundled profile files
BundledEn == Profile("BNPB", <<Rice, Water>>)

\* what a user may have put into the user directory or the settings
UserBroken == Profile("user", <<Broken>>)

UserEmpty == Profile("user", <<>>)

NotAProfile == ("foo" :> "bar")

\* resources without a provenance
NoProvenance == ("resources" :> <<Water>>)

A_en == <<"a", "_", "e", "n">>

U == <<"u">>

Z == <<"z">>

\* resources_path('minimum_needs'): the bundled files, never written
Bundled == (A_en \o DotJson) :> BundledEn

\* the values the settings store may hold under 'MinimumNeeds' at start
Absent == [t |-> "absent"]

StoredAtStart ==
    {Absent, PyUnicode(<<"x">>), PyDict(<<>>), PyDict(NotAProfile),
     PyDict(NoProvenance), PyDict(BundledEn)}

\* the user directories at start: none, an empty one, and one in which the
\* user changed a bundled file and keeps an empty profile and a note
DirsAtStart ==
    {[exists |-> FALSE, files |-> <<>>],
     [exists |-> TRUE, files |-> <<>>],
     [exists |-> TRUE,
      files |-> (A_en \o DotJson) :> UserBroken @@ (Z \o DotJson) :> UserEmpty
                @@ <<"n">> :> NotAProfile]}

LocalesAtStart == {<<"e", "n">>, <<"i", "d", "_", "I", "D">>}

\* get_plugins() at start: one plugin without parameters, and the three
\* ways a parameters dict holds 'minimum needs' and 'provenance'
PluginsAtStart ==
    "flood" :> [has_parameters |-> FALSE, parameters |-> <<>>]
    @@ "both" :> [has_parameters |-> TRUE,
                  parameters |-> ("minimum needs" :> <<>>
                                  @@ "provenance" :> "old"
                                  @@ "thresholds" :> "1.0")]
    @@ "needs" :> [has_parameters |-> TRUE,
                   parameters |-> ("minimum needs" :> <<>>
                                   @@ "thresholds" :> "1.0")]
    @@ "prov" :> [has_parameters |-> TRUE,
                  parameters |-> ("provenance" :> "old"
                                  @@ "thresholds" :> "1.0")]

\* the names the callers of the model pass
ProfileNames == {A_en, U, Z}

SaveNames == {U, U \o DotJson, U \o DotJson \o DotJson}

-----------------------------------------------------------------------------
(* The collaborators: QSettings, MinimumNeeds (the base class), Python.    *)

\* QSettings.value('MinimumNeeds', type=dict): a missing key reads as an
\* empty dict, a stored dict as itself, and a value of any other type
\* cannot be converted
SettingsValue(stored) ==
    CASE stored.t = "absent" -> Returned(PyDict(<<>>))
      [] stored.t = "dict" -> Returned(stored)
      [] OTHER -> Raised("TypeError")

\* a + b: a list and a string do not add
Add(a, b) ==
    IF a.t = b.t THEN Returned([t |-> a.t, v |-> a.v \o b.v])
    ELSE Raised("TypeError")

\* MinimumNeeds._defaults(): the hardcoded minimal profile
_defaults == Profile("default", <<Rice>>)

\* MinimumNeeds.read_from_file(path): the profile the file holds; a
\* missing file is a failure of the load
read_from_file(fs, path) ==
    IF path \in DOMAIN fs THEN Returned(PyDict(fs[path]))
    ELSE Raised("LoadFailure")

\* MinimumNeeds.write_to_file(path): the files after the current state was
\* serialized to path, overwriting
write_to_file(fs, path, needs) ==
    [f \in DOMAIN fs \cup {path} |-> IF f = path THEN needs.v ELSE fs[f]]

\* MinimumNeeds.remove_file(path): the files without path; a missing file
\* is tolerated
remove_file(fs, path) == [f \in DOMAIN fs \ {path} |-> fs[f]]

\* d[k] = v
SetItem(d, k, v) == [x \in DOMAIN d \cup {k} |-> IF x = k THEN v ELSE d[x]]

\* the orders in which os.listdir or dict.items may enumerate S
Orders(S) ==
    {o \in [1..Cardinality(S) -> S] : \A x \in S : \E i \in DOMAIN o : o[i] = x}

Constructed == op # "__init__"

-----------------------------------------------------------------------------
(* get_needs_parameters, provenance                                        *)

ResourceFields ==
    {"Resource name", "Resource description", "Frequency",
     "Readable sentence", "Minimum allowed", "Maximum allowed", "Unit",
     "Units", "Unit abbreviation", "Default"}

RECURSIVE NeedsLoop(_, _)
\* the for loop over self.minimum_needs['resources']
NeedsLoop(resources, parameters) ==
    IF resources = <<>>
    THEN Returned(parameters)
    ELSE LET resource == Head(resources)
         IN  IF ~(ResourceFields \subseteq DOMAIN resource)
             THEN Raised("KeyError")
             ELSE LET description ==
                          format_sentence(resource["Readable sentence"],
                                          resource)
                  IN  IF description.exc # "None"
                      THEN description
                      ELSE IF \E k \in {"Minimum allowed", "Maximum allowed",
                                        "Default"} :
                                  resource[k] \notin DOMAIN Numerals
                           THEN Raised("ValueError")
                           ELSE NeedsLoop(Tail(resources),
                                    Append(parameters,
                                      [name |-> resource["Resource name"],
                                       help_text |->
                                           resource["Resource description"],
                                       frequency |-> resource["Frequency"],
                                       description |-> description.v,
                                       minimum_allowed_value |->
                                           Numerals[resource["Minimum allowed"]],
                                       maximum_allowed_value |->
                                           Numerals[resource["Maximum allowed"]],
                                       unit_name |-> resource["Unit"],
                                       unit_plural |-> resource["Units"],
                                       unit_abbreviation |->
                                           resource["Unit abbreviation"],
                                       value |->
                                           Numerals[resource["Default"]]]))

get_needs_parameters(needs) ==
    IF "resources" \notin DOMAIN needs THEN Raised("KeyError")
    ELSE NeedsLoop(needs["resources"], <<>>)

provenance(needs) ==
    IF "provenance" \notin DOMAIN needs THEN Raised("KeyError")
    ELSE Returned(needs["provenance"])

-----------------------------------------------------------------------------
(* get_profiles                                                            *)

\* a loop that copies over the files of the user
SeedOverwriting(fs) ==
    [f \in DOMAIN fs \cup DOMAIN Bundled |->
        IF f \in DOMAIN Bundled THEN Bundled[f] ELSE fs[f]]

\* a loop that copies a bundled file the first time only
SeedOnce(fs) ==
    LET first == {f \in DOMAIN Bundled : copies[f] = "never"}
    IN  [f \in DOMAIN fs \cup first |->
            IF f \in DOMAIN fs THEN fs[f] ELSE Bundled[f]]

\* the for loop over os.listdir(path_name): the files after it
Seed(fs) ==
    [f \in DOMAIN fs \cup DOMAIN Bundled |->
        IF f \in DOMAIN fs THEN fs[f] ELSE Bundled[f]]

\* the list comprehension over os.listdir(locale_minimum_needs_dir)
Listing(order) ==
    LET json == SelectSeq(order, LAMBDA profile : Suffix(profile, 5) = DotJson)
    IN  [i \in DOMAIN json |-> DropSuffix(json[i], 5)]

\* the lists that comprehension may build from these files: os.listdir
\* gives them in any order
Listings(fs) ==
    {Listing(order) :
        order \in Orders({f \in DOMAIN fs : Suffix(f, 5) = DotJson})}

\* what a call of get_profiles returns for such a list
Profiles(profiles) == sort_by_locale(profiles, locale)

\* the history of the copies after that loop
Count(fs) ==
    [f \in DOMAIN Bundled |->
        IF f \in DOMAIN fs THEN copies[f]
        ELSE IF copies[f] = "never" THEN "once" ELSE "again"]

get_profiles ==
    /\ Constructed
    /\ \E profiles \in Listings(Seed(files)) :
          listed' = PyList(Profiles(profiles))
    /\ dir_exists' = TRUE
    /\ files' = Seed(files)
    /\ copies' = Count(files)
    /\ op' = "get_profiles"
    /\ arg' = <<>>
    /\ exc' = "None"
    /\ UNCHANGED <<settings, locale, minimum_needs, plugins>>
    /\ UNCHANGED <<sort_vars, format_vars>>

-----------------------------------------------------------------------------
(* load                                                                    *)

\* whether load falls back to the profile files
Fallback(value) ==
    value.exc = "None" /\ Falsy(value.v) /\ value.v # PyUnicode(<<>>)

\* a load without the except clause
LoadNeedsUncaught(value, raised) ==
    IF raised # "None"
    THEN [needs |-> minimum_needs, exc |-> raised]
    ELSE [needs |-> IF Falsy(value.v) /\ value.v # PyUnicode(<<>>)
                    THEN PyDict(_defaults)
                    ELSE value.v,
          exc |-> "None"]

\* the except clause and the statements after it: what load leaves in
\* self.minimum_needs and raises, from what the try block read and raised
LoadNeeds(value, raised) ==
    LET local == IF raised = "TypeError" THEN PyDict(_defaults) ELSE value.v
    IN  IF raised \notin {"None", "TypeError"}
        THEN [needs |-> minimum_needs, exc |-> raised]
        ELSE [needs |-> IF Falsy(local) /\ local # PyUnicode(<<>>)
                        THEN PyDict(_defaults)
                        ELSE local,
              exc |-> "None"]

load ==
    \E unsorted \in Listings(Seed(files)) :
        LET value == SettingsValue(settings)
            profiles == PyList(Profiles(unsorted))
            profiles_path == Add(profiles, PyUnicode(DotJson))
            read == IF profiles_path.exc = "None"
                    THEN read_from_file(Seed(files), profiles_path.v.v)
                    ELSE profiles_path
            raised == IF value.exc # "None" THEN value.exc
                      ELSE IF Fallback(value) THEN read.exc
                      ELSE "None"
            after == LoadNeeds(value, raised)
        IN  /\ minimum_needs' = after.needs
            /\ exc' = after.exc
            /\ IF Fallback(value)
               THEN /\ dir_exists' = TRUE
                    /\ files' = Seed(files)
                    /\ copies' = Count(files)
                    /\ listed' = profiles
               ELSE /\ UNCHANGED <<dir_exists, files, copies>>
                    /\ listed' = PyNone
            /\ op' = "load"
            /\ arg' = <<>>
            /\ UNCHANGED <<settings, locale, plugins>>
            /\ UNCHANGED <<sort_vars, format_vars>>

-----------------------------------------------------------------------------
(* load_profile, save_profile, remove_profile                              *)

\* os.path.join(str(self.root_directory), 'minimum_needs', profile + '.json'),
\* as the name of the file in <root>/minimum_needs
ProfilePath(profile) == profile \o DotJson

load_profile(profile) ==
    /\ Constructed
    /\ LET read == read_from_file(files, ProfilePath(profile))
       IN  /\ minimum_needs' = IF read.exc = "None" THEN read.v
                               ELSE minimum_needs
           /\ exc' = read.exc
    /\ op' = "load_profile"
    /\ arg' = profile
    /\ listed' = PyNone
    /\ UNCHANGED <<settings, locale, dir_exists, files, plugins, copies>>
    /\ UNCHANGED <<sort_vars, format_vars>>

\* profile.replace('.json', '')
SaveName(profile) == Replace(profile, DotJson, <<>>)

save_profile(profile) ==
    /\ Constructed
    /\ IF dir_exists
       THEN /\ files' = write_to_file(files, ProfilePath(SaveName(profile)),
                                      minimum_needs)
            /\ exc' = "None"
       ELSE /\ UNCHANGED files
            /\ exc' = "IOError"
    /\ op' = "save_profile"
    /\ arg' = profile
    /\ listed' = PyNone
    /\ UNCHANGED <<settings, locale, minimum_needs, dir_exists, plugins,
                   copies>>
    /\ UNCHANGED <<sort_vars, format_vars>>

remove_profile(profile) ==
    /\ Constructed
    /\ files' = remove_file(files, ProfilePath(profile))
    /\ op' = "remove_profile"
    /\ arg' = profile
    /\ listed' = PyNone
    /\ exc' = "None"
    /\ UNCHANGED <<settings, locale, minimum_needs, dir_exists, plugins,
                   copies>>
    /\ UNCHANGED <<sort_vars, format_vars>>

-----------------------------------------------------------------------------
(* save                                                                    *)

\* a save without the guard
NoResourcesUnchecked(needs) == FALSE

\* not self.minimum_needs['resources']
NoResources(needs) == needs["resources"] = <<>>

\* a patch that writes 'provenance' only where the plugin has it
PatchPresent(parameters, built, source) ==
    IF built.exc # "None"
    THEN [parameters |-> parameters, exc |-> built.exc]
    ELSE IF "provenance" \notin DOMAIN parameters
         THEN [parameters |-> SetItem(parameters, "minimum needs", built.v),
               exc |-> "None"]
         ELSE IF source.exc # "None"
              THEN [parameters |->
                        SetItem(parameters, "minimum needs", built.v),
                    exc |-> source.exc]
              ELSE [parameters |->
                        SetItem(SetItem(parameters, "minimum needs", built.v),
                                "provenance", source.v),
                    exc |-> "None"]

\* the two assignments to plugin.parameters, given what
\* get_needs_parameters() and self.provenance give: the plugin's parameters
\* after them and the exception that cut them short
Patch(parameters, built, source) ==
    IF built.exc # "None"
    THEN [parameters |-> parameters, exc |-> built.exc]
    ELSE IF source.exc # "None"
         THEN [parameters |-> SetItem(parameters, "minimum needs", built.v),
               exc |-> source.exc]
         ELSE [parameters |->
                   SetItem(SetItem(parameters, "minimum needs", built.v),
                           "provenance", source.v),
               exc |-> "None"]

RECURSIVE PatchLoop(_, _, _, _)
\* the for loop over get_plugins().items(), in the order the dict gives
PatchLoop(order, registry, built, source) ==
    IF order = <<>>
    THEN [plugins |-> registry, exc |-> "None"]
    ELSE LET plugin == registry[Head(order)]
         IN  IF ~plugin.has_parameters
             THEN PatchLoop(Tail(order), registry, built, source)
             ELSE IF "minimum needs" \in DOMAIN plugin.parameters
                  THEN LET patched == Patch(plugin.parameters, built, source)
                           next == [registry EXCEPT
                                      ![Head(order)].parameters =
                                          patched.parameters]
                       IN  IF patched.exc # "None"
                           THEN [plugins |-> next, exc |-> patched.exc]
                           ELSE PatchLoop(Tail(order), next, built, source)
                  ELSE PatchLoop(Tail(order), registry, built, source)

save ==
    /\ Constructed
    /\ IF "resources" \notin DOMAIN minimum_needs.v
       THEN /\ exc' = "KeyError"
            /\ UNCHANGED <<settings, plugins>>
       ELSE IF NoResources(minimum_needs.v)
            THEN /\ exc' = "None"
                 /\ UNCHANGED <<settings, plugins>>
            ELSE LET built == get_needs_parameters(minimum_needs.v)
                     source == provenance(minimum_needs.v)
                 IN  \E order \in Orders(DOMAIN plugins) :
                        LET patched ==
                                PatchLoop(order, plugins, built, source)
                        IN  /\ settings' = minimum_needs
                            /\ plugins' = patched.plugins
                            /\ exc' = patched.exc
    /\ op' = "save"
    /\ arg' = <<>>
    /\ listed' = PyNone
    /\ UNCHANGED <<locale, minimum_needs, dir_exists, files, copies>>
    /\ UNCHANGED <<sort_vars, format_vars>>

-----------------------------------------------------------------------------------------------------------------------------------------------------
(* The parts of the state a specification leaves alone.                    *)

ProfileIdle ==
    /\ settings = Absent
    /\ locale = <<>>
    /\ minimum_needs = PyNone
    /\ dir_exists = FALSE
    /\ files = <<>>
    /\ plugins = <<>>
    /\ copies = <<>>
    /\ op = "idle"
    /\ arg = <<>>
    /\ listed = PyNone
    /\ exc = "None"

SortIdle == s_names = <<>> /\ s_locale = <<>> /\ s_out = PyNone

FormatIdle == f_sentence = <<>> /\ f_resource = <<>> /\ f_out = PyNone

\* the sequences over S no longer than n
UpTo(S, n) == UNION {[1..k -> S] : k \in 0..n}

-----
(* The profile manager: a NeedsProfile under construction, then any calls. *)

\* __init__ up to its call of load
ProfileInit ==
    /\ settings \in StoredAtStart
    /\ locale \in LocalesAtStart
    /\ minimum_needs = PyNone
    /\ \E d \in DirsAtStart : dir_exists = d.exists /\ files = d.files
    /\ plugins = PluginsAtStart
    /\ copies = [f \in DOMAIN Bundled |-> "never"]
    /\ op = "__init__"
    /\ arg = <<>>
    /\ listed = PyNone
    /\ exc = "None"

Init == ProfileInit /\ SortIdle /\ FormatIdle

Next ==
    \/ load
    \/ get_profiles
    \/ save
    \/ \E profile \in ProfileNames : load_profile(profile)
    \/ \E profile \in SaveNames : save_profile(profile)
    \/ \E profile \in ProfileNames : remove_profile(profile)

Spec == Init /\ [][Next]_vars

-----------------------------------------------------------------------------
(* sort_by_locale on its own: any short list of names, a few locales.      *)

SortNames ==
    {A_en, <<"e", "n">>, <<"_", "e">>, <<"b", "_", "i", "d">>,
     <<"_", "e", "n", "_", "i", "d">>}

SortLocales ==
    {<<"e", "n">>, <<"e", "n", "_", "U", "S">>, <<"i", "d">>, <<"e">>}

SortInit ==
    /\ s_names \in UpTo(SortNames, MaxNames)
    /\ s_locale \in SortLocales
    /\ s_out = PyNone
    /\ ProfileIdle
    /\ FormatIdle

sort ==
    /\ s_out = PyNone
    /\ s_out' = PyList(sort_by_locale(s_names, s_locale))
    /\ UNCHANGED <<s_names, s_locale>>
    /\ UNCHANGED <<profile_vars, format_vars>>

SortNext == sort

SortSpec == SortInit /\ [][SortNext]_vars

-----------------------------------------------------------------------------
(* format_sentence on its own: any short sentence over the delimiters, a   *)
(* letter and the blank, and two longer examples.                          *)

SentenceChars == {"{", "}", "a", " "}

\* "Hello {{name}}."
Hello ==
    <<"H", "e", "l", "l", "o", " ", "{", "{", "n", "a", "m", "e", "}", "}",
      ".">>

\* "{{a}}}}"
TwiceClosed == <<"{", "{", "a", "}", "}", "}", "}">>

FormatResources == {<<>>, "a" :> "X" @@ "name" :> "Bob"}

FormatInit ==
    /\ f_sentence \in UpTo(SentenceChars, MaxSentence) \cup {Hello, TwiceClosed}
    /\ f_resource \in FormatResources
    /\ f_out = PyNone
    /\ ProfileIdle
    /\ SortIdle

format ==
    /\ f_out = PyNone
    /\ f_out' = format_sentence(f_sentence, f_resource)
    /\ UNCHANGED <<f_sentence, f_resource>>
    /\ UNCHANGED <<profile_vars, sort_vars>>

FormatNext == format

FormatSpec == FormatInit /\ [][FormatNext]_vars

-----------------------------------------------------------------------------
(* The properties.                                                         *)

\* a dict that holds a profile: a provenance and a list of resources
IsProfile(d) == {"provenance", "resources"} \subseteq DOMAIN d

\* a profile without resources
IsEmptyProfile(d) == "resources" \in DOMAIN d /\ d["resources"] = <<>>

\* a step in which get_profiles ran, called or from within load
ListingStep == op' = "get_profiles" \/ (op' = "load" /\ listed' # PyNone)

\* C1: when the settings store holds no profile state (absent or empty) and
\* get_profiles returns at least one name, after load() the current profile
\* is the content of the file of the first name returned.
C1_LoadReadsFirstProfile ==
    (/\ op = "load"
     /\ settings \in {Absent, PyDict(<<>>)}
     /\ listed # PyNone
     /\ listed.v # <<>>)
        => /\ ProfilePath(listed.v[1]) \in DOMAIN files
           /\ minimum_needs = PyDict(files[ProfilePath(listed.v[1])])

\* C2, as claimed: for every stored value that is not a profile mapping,
\* load() returns without raising and leaves the default profile, whose
\* resource list is not empty.
C2_LoadDefaultsOnAnyNonProfile ==
    (/\ op = "load"
     /\ settings # Absent
     /\ ~(settings.t = "dict" /\ IsProfile(settings.v)))
        => /\ exc = "None"
           /\ minimum_needs = PyDict(_defaults)
           /\ minimum_needs.v["resources"] # <<>>

\* C2, amended: for every stored value whose type is not a mapping, load()
\* returns without raising and leaves the default profile, whose resource
\* list is not empty.
C2_LoadDefaultsOnTypeMismatch ==
    (op = "load" /\ settings.t \notin {"absent", "dict"})
        => /\ exc = "None"
           /\ minimum_needs = PyDict(_defaults)
           /\ minimum_needs.v["resources"] # <<>>

C2_Witness ==
    /\ op = "load"
    /\ settings = PyUnicode(<<"x">>)
    /\ minimum_needs = PyDict(_defaults)

\* C3: save() on a profile with an empty resource list returns and changes
\* neither the settings store nor any plugin's parameters.
C3_SaveOfEmptyProfileChangesNothing ==
    [][(/\ op' = "save"
        /\ IsEmptyProfile(minimum_needs.v))
           => /\ exc' = "None"
              /\ settings' = settings
              /\ plugins' = plugins]_vars

C3_Witness ==
    /\ op = "save"
    /\ minimum_needs = PyDict(UserEmpty)
    /\ settings # minimum_needs
    /\ plugins = PluginsAtStart

\* C4: no operation persists a profile with zero resources: every file a
\* step writes or copies into the user directory, and every value a step
\* stores in the settings, holds at least one resource.
C4_NoEmptyProfilePersisted ==
    [][/\ \A f \in DOMAIN files' :
             (f \notin DOMAIN files \/ files'[f] # files[f])
                 => ~IsEmptyProfile(files'[f])
       /\ settings' # settings => ~IsEmptyProfile(settings'.v)]_vars

\* C5, as claimed: save() on a profile with resources writes 'minimum needs'
\* and 'provenance' only where the entry is present: no plugin's set of keys
\* changes, no other entry changes, and a plugin without 'minimum needs' is
\* left as it was.
C5_SaveWritesOnlyPresentEntries ==
    [][(/\ op' = "save"
        /\ "resources" \in DOMAIN minimum_needs.v
        /\ ~IsEmptyProfile(minimum_needs.v))
           => \A p \in DOMAIN plugins :
                 LET old == plugins[p].parameters
                     new == plugins'[p].parameters
                 IN  /\ DOMAIN new = DOMAIN old
                     /\ \A k \in DOMAIN old \ {"minimum needs", "provenance"} :
                           new[k] = old[k]
                     /\ "minimum needs" \notin DOMAIN old
                           => plugins'[p] = plugins[p]]_vars

\* C5, amended: save() on a profile with resources changes only the plugins
\* that have a 'minimum needs' entry; in those it changes no entry but
\* 'minimum needs' and 'provenance' and removes none, and when it returns it
\* has set both, adding 'provenance' where the plugin had none.
C5_SaveWritesBothWhereNeedsPresent ==
    [][(/\ op' = "save"
        /\ "resources" \in DOMAIN minimum_needs.v
        /\ ~IsEmptyProfile(minimum_needs.v))
           => \A p \in DOMAIN plugins :
                 LET old == plugins[p].parameters
                     new == plugins'[p].parameters
                 IN  /\ plugins'[p].has_parameters = plugins[p].has_parameters
                     /\ DOMAIN old \subseteq DOMAIN new
                     /\ DOMAIN new \subseteq DOMAIN old \cup {"provenance"}
                     /\ \A k \in DOMAIN old \ {"minimum needs", "provenance"} :
                           new[k] = old[k]
                     /\ "minimum needs" \notin DOMAIN old
                           => plugins'[p] = plugins[p]
                     /\ (exc' = "None" /\ "minimum needs" \in DOMAIN old)
                           => /\ "provenance" \in DOMAIN new
                              /\ new["provenance"]
                                     = minimum_needs.v["provenance"]
                              /\ Len(new["minimum needs"])
                                     = Len(minimum_needs.v["resources"])
                              /\ \A i \in DOMAIN new["minimum needs"] :
                                    new["minimum needs"][i].name
                                        = minimum_needs.v["resources"][i]
                                              ["Resource name"]]_vars

C5_Witness ==
    /\ op = "save"
    /\ exc = "None"
    /\ minimum_needs = PyDict(BundledEn)
    /\ "provenance" \in DOMAIN plugins["needs"].parameters
    /\ plugins["needs"].parameters["provenance"] = "BNPB"
    /\ plugins["prov"] = PluginsAtStart["prov"]

\* C6: get_profiles never overwrites a file of the user directory, and a
\* second get_profiles right after a first copies nothing and leaves the
\* files of the user directory and their contents as they were.
C6_SeedingKeepsUserFiles ==
    [][/\ ListingStep
          => \A f \in DOMAIN files :
                f \in DOMAIN files' /\ files'[f] = files[f]
       /\ (op = "get_profiles" /\ op' = "get_profiles")
          => files' = files /\ copies' = copies]_vars

C6_Witness ==
    /\ op = "get_profiles"
    /\ ProfilePath(A_en) \in DOMAIN files
    /\ files[ProfilePath(A_en)] = UserBroken
    /\ copies[ProfilePath(A_en)] = "never"
    /\ listed.v # <<>>

\* C7, as claimed: each bundled file is copied into the user directory at
\* most once, so a bundled profile that was removed stays away.
C7_BundledFileCopiedAtMostOnce ==
    \A f \in DOMAIN copies : copies[f] # "again"

\* C7, amended: every get_profiles copies in each bundled file whose name
\* the user directory lacks, whether or not it was copied before, so a
\* bundled profile that was removed is back in the next list.
C7_SeedingRestoresMissingFiles ==
    [][ListingStep
          => \A f \in DOMAIN Bundled :
                /\ f \in DOMAIN files'
                /\ f \notin DOMAIN files => files'[f] = Bundled[f]
                /\ Suffix(f, 5) = DotJson
                      => \E i \in DOMAIN listed'.v :
                            listed'.v[i] = DropSuffix(f, 5)]_vars

C7_Witness ==
    /\ op = "get_profiles"
    /\ copies[ProfilePath(A_en)] = "again"
    /\ files[ProfilePath(A_en)] = BundledEn
    /\ \E i \in DOMAIN listed.v : listed.v[i] = A_en

\* C8: save_profile(name) writes the current profile to <n>.json, where n
\* is name without one trailing '.json' if it has one, and name otherwise.
C8_SaveProfileStripsTrailingExtension ==
    (op = "save_profile" /\ exc = "None")
        => LET n == IF Suffix(arg, 5) = DotJson THEN DropSuffix(arg, 5)
                    ELSE arg
           IN  /\ (n \o DotJson) \in DOMAIN files
               /\ files[n \o DotJson] = minimum_needs.v

\* whether name holds "_" and the first two characters of loc, in a row
HasLocaleTag(name, loc) ==
    \E i \in 1..(Len(name) - 2) :
        name[i] = "_" /\ name[i + 1] = loc[1] /\ name[i + 2] = loc[2]

\* C9: for a locale of two characters or more, sort_by_locale returns a
\* stable partition of the names: a permutation in which every name with
\* the tag of the locale precedes every name without it, each group in the
\* order of the input.
C9_SortIsStablePartition ==
    (s_out # PyNone /\ Len(s_locale) >= 2)
        => /\ Len(s_out.v) = Len(s_names)
           /\ \A i, j \in DOMAIN s_out.v :
                 (/\ HasLocaleTag(s_out.v[i], s_locale)
                  /\ ~HasLocaleTag(s_out.v[j], s_locale)) => i < j
           /\ \E at \in Permutations(DOMAIN s_names) :
                 /\ \A i \in DOMAIN s_names : s_out.v[i] = s_names[at[i]]
                 /\ \A i, j \in DOMAIN s_names :
                       (/\ i < j
                        /\ HasLocaleTag(s_names[at[i]], s_locale)
                               = HasLocaleTag(s_names[at[j]], s_locale))
                           => at[i] < at[j]

C9_Witness ==
    /\ s_out # PyNone
    /\ s_locale = <<"e", "n", "_", "U", "S">>
    /\ s_names = <<<<"b", "_", "i", "d">>, A_en, <<"e", "n">>>>
    /\ s_out.v = <<A_en, <<"b", "_", "i", "d">>, <<"e", "n">>>>

RECURSIVE Delimiters(_)
\* the delimiters of a sentence from left to right: "open" for '{{',
\* "close" for '}}', each with the text that follows it up to the next one
Delimiters(s) ==
    LET open == Find(s, <<"{", "{">>)
        close == Find(s, <<"}", "}">>)
        at == IF open = 0 THEN close
              ELSE IF close = 0 THEN open ELSE Min(open, close)
    IN  IF at = 0
        THEN <<>>
        ELSE LET rest == SubSeq(s, at + 2, Len(s))
                 more == Delimiters(rest)
                 text == IF more = <<>> THEN rest
                         ELSE SubSeq(rest, 1, more[1].at - 1)
                 shifted == [i \in DOMAIN more |->
                                [more[i] EXCEPT !.at = @ + at + 1]]
             IN  <<[kind |-> IF at = open THEN "open" ELSE "close",
                    at |-> at, text |-> text]>> \o shifted

\* the number of '{{' still open before the i-th delimiter
RECURSIVE Depth(_, _)
Depth(d, i) ==
    IF i = 1 THEN 0
    ELSE IF d[i - 1].kind = "open" THEN Depth(d, i - 1) + 1
         ELSE IF Depth(d, i - 1) = 0 THEN 0 ELSE Depth(d, i - 1) - 1

\* the places of the '}}' that no '{{' before them matches
UnmatchedCloses(s) ==
    LET d == Delimiters(s)
    IN  {i \in DOMAIN d : d[i].kind = "close" /\ Depth(d, i) = 0}

\* the keys of the placeholders of a sentence: the trimmed text between a
\* '{{' and the '}}' that follows it
PlaceholderKeys(s) ==
    LET d == Delimiters(s)
    IN  {Text(Strip(d[i].text)) :
            i \in {j \in DOMAIN d : /\ d[j].kind = "open"
                                    /\ j + 1 \in DOMAIN d
                                    /\ d[j + 1].kind = "close"}}

\* C10, as claimed: format_sentence fails for every sentence that holds a
\* '}}' with no matching '{{' before it, and for every sentence with a
\* placeholder whose key the resource lacks.
C10_FormatFailsOnAnyUnmatchedClose ==
    (/\ f_out # PyNone
     /\ \/ UnmatchedCloses(f_sentence) # {}
        \/ PlaceholderKeys(f_sentence) \ DOMAIN f_resource # {})
        => f_out.exc # "None"

\* C10, amended: format_sentence fails for every sentence that holds an
\* unmatched '}}' after its first '{{', and for every sentence with a
\* placeholder whose key the resource lacks; a sentence without '{{' is
\* returned without its trailing blanks, whatever '}}' it holds.
C10_FormatFailsOnUnmatchedCloseAfterOpen ==
    f_out # PyNone
        => LET d == Delimiters(f_sentence)
               opens == {i \in DOMAIN d : d[i].kind = "open"}
           IN  /\ (\/ \E i \in UnmatchedCloses(f_sentence) :
                         \E j \in opens : j < i
                   \/ PlaceholderKeys(f_sentence) \ DOMAIN f_resource # {})
                      => f_out.exc # "None"
               /\ opens = {}
                      => f_out = Returned(Text(RStrip(f_sentence)))

C10_Witness ==
    /\ f_out = Raised("ValueError")
    /\ f_sentence = TwiceClosed
    /\ "a" \in DOMAIN f_resource

====
